---------------------------- MODULE Spec2Model ----------------------------
(***************************************************************************)
(* The three icon scripts of scripts/: add-rounded-corners.py,             *)
(* create-disk-icon.py and create-volume-icon-linux.py.  Each run of a     *)
(* script is one process; env holds everything the run reads from its      *)
(* surroundings (arguments, file system, installed tools, the step at      *)
(* which an I/O error is raised) and pc is the script's position.          *)
(***************************************************************************)
EXTENDS Integers, Sequences, FiniteSets, TLC

VARIABLES env, pc, exitCode, unhandled, reported, raised,
          called, radius_percent, img, radius, outFiles, iconset, saves,
          idx, retina, canvas, shapes, line_y,
          dmgDir, dmgTouched, app_icon, tried, app_img, ccResult,
          tmpFiles, tmpWritten

vars == <<env, pc, exitCode, unhandled, reported, raised,
          called, radius_percent, img, radius, outFiles, iconset, saves,
          idx, retina, canvas, shapes, line_y,
          dmgDir, dmgTouched, app_icon, tried, app_img, ccResult,
          tmpFiles, tmpWritten>>

(***************************************************************************)
(* Bounds of the model.                                                    *)
(***************************************************************************)
MaxArgLen == 3   \* characters in the radius argument
MaxDim == 9      \* width and height of the input image, in pixels

Max(a, b) == IF a >= b THEN a ELSE b
Min(a, b) == IF a <= b THEN a ELSE b

(***************************************************************************)
(* Python arithmetic.                                                      *)
(***************************************************************************)

\* int(n / d) for integers n and d > 0: the true quotient, truncated towards 0.
PyIntTrueDiv(n, d) == IF n >= 0 THEN n \div d ELSE -((-n) \div d)

RECURSIVE Pow2Floor(_)
\* The largest power of two that is <= n (n >= 1): the binade of a double.
Pow2Floor(n) == IF n < 2 THEN 1 ELSE 2 * Pow2Floor(n \div 2)

\* int(w * 0.7) in IEEE double arithmetic.  The double nearest 0.7 is
\* 0.7 - 2^-52/5, so the exact product is 7w/10 - w*2^-52/5.  When 7w/10 is
\* not an integer the product stays strictly between its floor and ceiling;
\* when w = 10j the product is 7j - j*2^-51, which rounds back to 7j only if
\* j*2^-51 is at most half an ulp of the binade of 7j, i.e. 4j <= 2^k.
PyIntMul07(w) ==
    IF w > 0 /\ w % 10 = 0 /\ 4 * (w \div 10) > Pow2Floor(7 * (w \div 10))
    THEN (7 * w) \div 10 - 1
    ELSE (7 * w) \div 10

(***************************************************************************)
(* int(str): the characters of the argument are one-character strings.     *)
(***************************************************************************)
Digits == {"0", "1", "5"}
ArgChars == Digits \cup {"-", "+", " ", "_", "x"}

DigitVal(c) ==
    CASE c = "0" -> 0 [] c = "1" -> 1 [] c = "5" -> 5 [] OTHER -> 0

RECURSIVE StripLeft(_)
StripLeft(s) == IF s # <<>> /\ Head(s) = " " THEN StripLeft(Tail(s)) ELSE s

RECURSIVE StripRight(_)
StripRight(s) ==
    IF s # <<>> /\ s[Len(s)] = " " THEN StripRight(SubSeq(s, 1, Len(s) - 1)) ELSE s

\* The digit part of an integer literal: digits, single underscores between them.
DigitsOk(d) ==
    /\ d # <<>>
    /\ \A i \in 1..Len(d) : d[i] \in Digits \cup {"_"}
    /\ d[1] \in Digits /\ d[Len(d)] \in Digits
    /\ \A i \in 1..(Len(d) - 1) : ~(d[i] = "_" /\ d[i + 1] = "_")

RECURSIVE DigitsValue(_, _)
DigitsValue(d, acc) ==
    IF d = <<>> THEN acc
    ELSE IF Head(d) = "_" THEN DigitsValue(Tail(d), acc)
    ELSE DigitsValue(Tail(d), 10 * acc + DigitVal(Head(d)))

\* int(s): [ok |-> FALSE] stands for ValueError.
PyInt(s) ==
    LET t == StripRight(StripLeft(s))
        signed == t # <<>> /\ Head(t) \in {"-", "+"}
        d == IF signed THEN Tail(t) ELSE t
        neg == signed /\ Head(t) = "-"
    IN IF DigitsOk(d)
       THEN [ok |-> TRUE, val |-> IF neg THEN -DigitsValue(d, 0) ELSE DigitsValue(d, 0)]
       ELSE [ok |-> FALSE, val |-> 0]

(***************************************************************************)
(* add-rounded-corners.py                                                  *)
(***************************************************************************)

\* A faulty variant: the radius taken from the larger dimension.
PixelRadiusOfLarger(width, height, pct) ==
    PyIntTrueDiv(Max(width, height) * pct, 100)

\* radius = int(min(width, height) * radius_percent / 100)
PixelRadius(width, height, pct) ==
    PyIntTrueDiv(Min(width, height) * pct, 100)

\* A faulty variant: percentages up to 100 accepted.
RadiusInRangeLoose(pct) == 0 <= pct /\ pct <= 100

\* if not 0 <= radius_percent <= 50
RadiusInRange(pct) == 0 <= pct /\ pct <= 50


\* output_path: sys.argv[2], or the input path with "-rounded" before the extension
OutputPath(argv) == IF Len(argv) > 1 THEN argv[2] ELSE "in-rounded.png"

(***************************************************************************)
(* create-disk-icon.py: the geometry of create_single_disk_icon(size).     *)
(* A rectangle is the pair of corners handed to the drawing call.          *)
(***************************************************************************)
Rect(a, b, c, d) == [x0 |-> a, y0 |-> b, x1 |-> c, y1 |-> d]

DiskSizes == <<16, 32, 64, 128, 256, 512>>

\* A faulty variant: the shadow offset as large as the margin.
ShadowOffsetWide(size) == Max(1, size \div 10)

\* shadow_offset = max(1, size // 100)
ShadowOffset(size) == Max(1, size \div 100)

\* margin, disk_width, disk_height, x1, y1, x2, y2, corner_radius, highlight_height
DiskGeometry(size) ==
    LET margin == size \div 10
        disk_width == size - (2 * margin)
        disk_height == PyIntMul07(disk_width)
        y1 == (size - disk_height) \div 2
    IN [margin |-> margin, disk_width |-> disk_width, disk_height |-> disk_height,
        x1 |-> margin, y1 |-> y1, x2 |-> size - margin, y2 |-> y1 + disk_height,
        corner_radius |-> size \div 12,
        highlight_height |-> disk_height \div 3]

\* The gradient strips: for i in range(min(10, size // 20)), drawn only when
\* gradient_y < y2 - corner_radius.
GradientStrips(size) ==
    LET g == DiskGeometry(size)
        gradient_steps == Min(10, size \div 20)
        gradient_y(i) == g.y1 + g.highlight_height + (i * 2)
    IN {Rect(g.x1 + g.corner_radius, gradient_y(i),
             g.x2 - g.corner_radius, gradient_y(i) + 1) :
          i \in {j \in 0..(gradient_steps - 1) : gradient_y(j) < g.y2 - g.corner_radius}}

\* The connector notch, drawn when size >= 32.
Connector(size) ==
    LET g == DiskGeometry(size)
        connector_width == Max(4, size \div 16)
        connector_height == Max(6, size \div 10)
        connector_x == g.x2 - 2
        connector_y == g.y1 + (g.disk_height - connector_height) \div 2
    IN IF size >= 32
       THEN {Rect(connector_x, connector_y,
                  connector_x + connector_width, connector_y + connector_height)}
       ELSE {}

\* line_spacing = max(8, size // 32)
LineSpacing(size) == Max(8, size \div 32)

\* Everything create_single_disk_icon draws before the texture lines.
DrawBase(size) ==
    LET g == DiskGeometry(size)
        so == ShadowOffset(size)
    IN [shadow |-> Rect(g.x1 + so, g.y1 + so, g.x2 + so, g.y2 + so),
        body |-> Rect(g.x1, g.y1, g.x2, g.y2),
        highlight |-> Rect(g.x1 + g.margin \div 2, g.y1 + g.margin \div 2,
                           g.x2 - g.margin \div 2, g.y1 + g.highlight_height),
        strips |-> GradientStrips(size),
        connector |-> Connector(size),
        lines |-> {}]

NoShapes == [shadow |-> Rect(0, 0, 0, 0), body |-> Rect(0, 0, 0, 0),
             highlight |-> Rect(0, 0, 0, 0), strips |-> {}, connector |-> {},
             lines |-> {}]

\* f"icon_{size}x{size}.png" / f"icon_{size}x{size}@2x.png", holding a px-by-px raster
IconFile(size, is2x, px) ==
    [w |-> size, h |-> size, at2x |-> is2x, px_w |-> px, px_h |-> px]

\* A faulty variant: the @2x file rendered at the nominal size.
RetinaPixelsSame(size) == size

\* create_single_disk_icon(size * 2) for the @2x file
RetinaPixels(size) == size * 2

(***************************************************************************)
(* The surroundings of a run.                                              *)
(***************************************************************************)
NoFault == [kind |-> "none", at |-> 0]
Fault(k) == [kind |-> k, at |-> 0]

\* The sequences over S of length 1..n.
SeqsUpTo(S, n) == UNION {[1..k -> S] : k \in 1..n}

RadiusArgs == SeqsUpTo(ArgChars, MaxArgLen)

EnvOf(script, argv, inputExists, hasPil, fault) ==
    [script |-> script, argv |-> argv, inputExists |-> inputExists,
     hasPil |-> hasPil, fault |-> fault,
     exists |-> {}, dmgInit |-> "absent", hasIcns2png |-> FALSE, icnsYield |-> {},
     hasConvert |-> FALSE, convertOk |-> FALSE, sibling3 |-> FALSE]

\* A run that stops at the import or at the input test reads nothing further,
\* so those runs are listed once, not once for each value of what they skip.
RoundedEnvs ==
    {EnvOf("rounded", argv, e[1], e[2], e[3]) :
        argv \in {<<>>, <<"in.png">>, <<"in.png", "out.png">>}
                 \cup {<<"in.png", "out.png", r>> : r \in RadiusArgs},
        e \in {<<TRUE, FALSE, NoFault>>, <<FALSE, TRUE, NoFault>>,
               <<TRUE, TRUE, NoFault>>, <<TRUE, TRUE, Fault("open")>>,
               <<TRUE, TRUE, Fault("save")>>}}

DiskEnvs ==
    {EnvOf("disk", argv, TRUE, hasPil, fault) :
        argv \in {<<>>, <<"out">>}, hasPil \in BOOLEAN,
        fault \in {NoFault, Fault("mkdir")}
                  \cup {[kind |-> "iconset_save", at |-> n] : n \in 1..(2 * Len(DiskSizes))}}

InitState(e) ==
    /\ env = e
    /\ pc = "start"
    /\ exitCode = -1
    /\ unhandled = FALSE
    /\ reported = FALSE
    /\ raised = FALSE
    /\ called = FALSE
    /\ radius_percent = 20
    /\ img = [width |-> 0, height |-> 0]
    /\ radius = -1
    /\ outFiles = {}
    /\ iconset = {}
    /\ saves = 0
    /\ idx = 1
    /\ retina = FALSE
    /\ canvas = 0
    /\ shapes = NoShapes
    /\ line_y = 0
    /\ dmgDir = e.dmgInit
    /\ dmgTouched = FALSE
    /\ app_icon = 0
    /\ tried = <<>>
    /\ app_img = "none"
    /\ ccResult = "none"
    /\ tmpFiles = {}
    /\ tmpWritten = {}

\* The process ends with this exit code; handled: the script printed its own
\* message and called sys.exit, otherwise the interpreter printed a traceback.
Exit(code, handled, error) ==
    /\ pc' = "exit"
    /\ exitCode' = code
    /\ reported' = handled
    /\ unhandled' = ~handled
    /\ raised' = (raised \/ error)

Running == <<exitCode, unhandled, reported, raised>>

roundedVars == <<called, radius_percent, img, radius>>
diskVars == <<idx, retina, canvas, shapes, line_y>>
compositeVars == <<dmgDir, dmgTouched, app_icon, tried, app_img, ccResult,
                   tmpFiles, tmpWritten>>

(***************************************************************************)
(* add-rounded-corners.py                                                  *)
(***************************************************************************)

\* from PIL import Image, ImageDraw (line 6, unguarded), then main() is called.
RcImport ==
    /\ env.script = "rounded" /\ pc = "start"
    /\ IF env.hasPil
       THEN pc' = "main" /\ UNCHANGED Running
       ELSE Exit(1, FALSE, TRUE)
    /\ UNCHANGED <<env, roundedVars, outFiles, iconset, saves, diskVars, compositeVars>>

\* main() up to the call of add_rounded_corners: the argument checks.
RcMain ==
    /\ env.script = "rounded" /\ pc = "main"
    /\ LET argv == env.argv
           parsed == IF Len(argv) > 2 THEN PyInt(argv[3]) ELSE [ok |-> TRUE, val |-> 20]
       IN IF Len(argv) < 1 THEN Exit(1, TRUE, TRUE) /\ UNCHANGED radius_percent
          ELSE IF ~env.inputExists THEN Exit(1, TRUE, TRUE) /\ UNCHANGED radius_percent
          ELSE IF ~parsed.ok THEN Exit(1, TRUE, TRUE) /\ UNCHANGED radius_percent
          ELSE IF ~RadiusInRange(parsed.val)
               THEN Exit(1, TRUE, TRUE) /\ radius_percent' = parsed.val
          ELSE /\ pc' = "call"
               /\ radius_percent' = parsed.val
               /\ UNCHANGED Running
    /\ UNCHANGED <<env, called, img, radius, outFiles, iconset, saves, diskVars,
                   compositeVars>>

\* add_rounded_corners, lines 20-42: open the image, compute the radius, build
\* the mask.  The image read has any size up to MaxDim.
RcOpen ==
    /\ env.script = "rounded" /\ pc = "call"
    /\ called' = TRUE
    /\ IF env.fault.kind = "open"
       THEN Exit(1, TRUE, TRUE) /\ UNCHANGED <<img, radius>>
       ELSE \E width \in 1..MaxDim, height \in 1..MaxDim :
               /\ img' = [width |-> width, height |-> height]
               /\ radius' = PixelRadius(width, height, radius_percent)
               /\ pc' = "save"
               /\ UNCHANGED Running
    /\ UNCHANGED <<env, radius_percent, outFiles, iconset, saves, diskVars, compositeVars>>

\* add_rounded_corners, line 45: output.save, then main returns.
RcSave ==
    /\ env.script = "rounded" /\ pc = "save"
    /\ IF env.fault.kind = "save"
       THEN Exit(1, TRUE, TRUE) /\ UNCHANGED outFiles
       ELSE /\ outFiles' = {[name |-> OutputPath(env.argv),
                             px_w |-> img.width, px_h |-> img.height]}
            /\ Exit(0, TRUE, FALSE)
    /\ UNCHANGED <<env, roundedVars, iconset, saves, diskVars, compositeVars>>

NextRounded == RcImport \/ RcMain \/ RcOpen \/ RcSave

(***************************************************************************)
(* create-disk-icon.py                                                     *)
(***************************************************************************)

\* Lines 11-16 and 133-138: the guarded import and argparse.
DiskStart ==
    /\ env.script = "disk" /\ pc = "start"
    /\ IF ~env.hasPil THEN Exit(1, TRUE, TRUE)
       ELSE IF Len(env.argv) < 1 THEN Exit(2, TRUE, TRUE)
       ELSE pc' = "mkdir" /\ UNCHANGED Running
    /\ UNCHANGED <<env, roundedVars, outFiles, iconset, saves, diskVars, compositeVars>>

\* create_disk_icon, lines 21-23: iconset_dir.mkdir(parents=True, exist_ok=True)
DiskMkdir ==
    /\ env.script = "disk" /\ pc = "mkdir"
    /\ IF env.fault.kind = "mkdir" THEN Exit(1, TRUE, TRUE)
       ELSE pc' = "render" /\ UNCHANGED Running
    /\ UNCHANGED <<env, roundedVars, outFiles, iconset, saves, diskVars, compositeVars>>

\* create_single_disk_icon, lines 41-115: the canvas and every shape but the
\* texture lines.
DiskRender ==
    /\ env.script = "disk" /\ pc = "render"
    /\ LET size == IF retina THEN RetinaPixels(DiskSizes[idx]) ELSE DiskSizes[idx]
           g == DiskGeometry(size)
       IN /\ canvas' = size
          /\ shapes' = DrawBase(size)
          /\ IF size >= 128
             THEN /\ line_y' = g.y1 + g.highlight_height + LineSpacing(size)
                  /\ pc' = "texture"
             ELSE /\ pc' = "save"
                  /\ UNCHANGED line_y
    /\ UNCHANGED <<env, Running, roundedVars, outFiles, iconset, saves, idx, retina,
                   compositeVars>>

\* Lines 122-128: one test of the while condition, and one pass of its body.
DiskTextureLine ==
    /\ env.script = "disk" /\ pc = "texture"
    /\ LET g == DiskGeometry(canvas)
       IN IF line_y < g.y2 - g.corner_radius
          THEN /\ shapes' = [shapes EXCEPT !.lines =
                                 @ \cup {Rect(g.x1 + g.corner_radius, line_y,
                                              g.x2 - g.corner_radius, line_y)}]
               /\ line_y' = line_y + LineSpacing(canvas)
               /\ UNCHANGED pc
          ELSE /\ pc' = "save"
               /\ UNCHANGED <<shapes, line_y>>
    /\ UNCHANGED <<env, Running, roundedVars, outFiles, iconset, saves, idx, retina,
                   canvas, compositeVars>>

\* Lines 28 and 32: img.save into the iconset; after the last one, lines 34-35
\* and 142-144.  An exception goes to the handler of lines 145-147.
DiskSave ==
    /\ env.script = "disk" /\ pc = "save"
    /\ saves' = saves + 1
    /\ IF env.fault.kind = "iconset_save" /\ env.fault.at = saves + 1
       THEN Exit(1, TRUE, TRUE) /\ UNCHANGED <<iconset, idx, retina>>
       ELSE /\ iconset' = iconset \cup {IconFile(DiskSizes[idx], retina, canvas)}
            /\ IF ~retina
               THEN retina' = TRUE /\ pc' = "render" /\ UNCHANGED <<idx, Running>>
               ELSE IF idx < Len(DiskSizes)
               THEN retina' = FALSE /\ idx' = idx + 1 /\ pc' = "render"
                    /\ UNCHANGED Running
               ELSE Exit(0, TRUE, FALSE) /\ UNCHANGED <<idx, retina>>
    /\ UNCHANGED <<env, roundedVars, outFiles, canvas, shapes, line_y, compositeVars>>

NextDisk == DiskStart \/ DiskMkdir \/ DiskRender \/ DiskTextureLine \/ DiskSave

(***************************************************************************)
(* create-volume-icon-linux.py                                             *)
(***************************************************************************)

\* app_icon_candidates: 1 = assets/icon.png, 2 = assets/icon.icns,
\* 3 = extracted-icons/app-icon-set/PNutTermTS.icns
Candidates == <<"png", "icns", "icns">>

\* Path(app_icon_path).suffix.lower()
Suffix(c) == Candidates[c]

CompositeSizes == <<16, 32, 64, 128, 256, 512>>

\* A faulty variant: the @2x file written for 512 too.
Wants2xAll(size) == size <= 512

\* if size <= 256: the @2x file is written too
Wants2x(size) == size <= 256

\* png_alt = app_icon_path.replace('.icns', '.png'); Path(png_alt).exists().
\* The sibling of assets/icon.icns is the first candidate, assets/icon.png.
SiblingExists(e, c) == IF c = 2 THEN 1 \in e.exists ELSE e.sibling3

\* pngs: the *_512x512*.png files, else the *_256x256*.png files
LargestExtracted(yield) ==
    IF 512 \in yield THEN {512} ELSE IF 256 \in yield THEN {256} ELSE {}

CompositeFaults ==
    {NoFault} \cup
    {Fault(k) : k \in {"which", "mkdir", "placeholder", "open_disk", "open_app",
                       "save", "iconset_mkdir", "remove", "copy"}} \cup
    {[kind |-> "iconset_save", at |-> n] : n \in {1, 2, 11}}

CompositeEnvs ==
    {[script |-> "composite", argv |-> <<>>, inputExists |-> FALSE,
      hasPil |-> hasPil, fault |-> fault, exists |-> exists, dmgInit |-> dmgInit,
      hasIcns2png |-> tool[1], icnsYield |-> tool[2],
      hasConvert |-> conv[1], convertOk |-> conv[2], sibling3 |-> sibling3] :
        hasPil \in BOOLEAN, fault \in CompositeFaults, exists \in SUBSET (1..3),
        dmgInit \in {"absent", "present"},
        tool \in {<<FALSE, {}>>, <<TRUE, {}>>, <<TRUE, {32}>>, <<TRUE, {32, 256}>>,
                  <<TRUE, {32, 256, 512}>>},
        conv \in {<<FALSE, FALSE>>, <<TRUE, FALSE>>, <<TRUE, TRUE>>},
        sibling3 \in BOOLEAN}

\* disk_icon_path = '/tmp/disk_icon.png', png_path = '/tmp/app_icon.png', and
\* the files icns2png -x writes into /tmp, one for each embedded size.
DiskIconTmp == <<"disk_icon.png", 0>>
AppIconTmp == <<"app_icon.png", 0>>
ExtractedTmp(yield) == {<<"icns", n>> : n \in yield}

\* create_composite_icon returns False: an early return, or the handler of
\* lines 179-181.
CcFail ==
    /\ ccResult' = "false"
    /\ pc' = "after"
    /\ raised' = TRUE
    /\ UNCHANGED <<exitCode, unhandled, reported>>

\* main, lines 189-194: check_dependencies and the PIL check.
CvStart ==
    /\ env.script = "composite" /\ pc = "start"
    /\ IF env.fault.kind = "which" THEN Exit(1, FALSE, TRUE)
       ELSE IF ~env.hasPil THEN Exit(1, TRUE, TRUE)
       ELSE pc' = "paths" /\ UNCHANGED Running
    /\ UNCHANGED <<env, roundedVars, outFiles, iconset, saves, diskVars, compositeVars>>

\* main, lines 197-200: output_dir.mkdir(exist_ok=True)
CvPaths ==
    /\ env.script = "composite" /\ pc = "paths"
    /\ IF env.fault.kind = "mkdir"
       THEN Exit(1, FALSE, TRUE) /\ UNCHANGED <<dmgDir, dmgTouched>>
       ELSE /\ dmgDir' = "present"
            /\ dmgTouched' = (dmgTouched \/ dmgDir = "absent")
            /\ pc' = "find"
            /\ UNCHANGED Running
    /\ UNCHANGED <<env, roundedVars, outFiles, iconset, saves, diskVars,
                   app_icon, tried, app_img, ccResult, tmpFiles, tmpWritten>>

\* main, lines 203-221: the first candidate that exists.
CvFind ==
    /\ env.script = "composite" /\ pc = "find"
    /\ IF env.exists = {}
       THEN Exit(1, TRUE, TRUE) /\ UNCHANGED app_icon
       ELSE /\ app_icon' = CHOOSE c \in env.exists : \A d \in env.exists : c <= d
            /\ pc' = "placeholder"
            /\ UNCHANGED Running
    /\ UNCHANGED <<env, roundedVars, outFiles, iconset, saves, diskVars,
                   dmgDir, dmgTouched, tried, app_img, ccResult, tmpFiles, tmpWritten>>

\* create_composite_icon, lines 93-96: create_disk_icon_placeholder writes
\* /tmp/disk_icon.png, or catches its own error and returns False.
CvPlaceholder ==
    /\ env.script = "composite" /\ pc = "placeholder"
    /\ IF env.fault.kind = "placeholder"
       THEN CcFail /\ UNCHANGED <<tmpFiles, tmpWritten>>
       ELSE /\ tmpFiles' = tmpFiles \cup {DiskIconTmp}
            /\ tmpWritten' = tmpWritten \cup {DiskIconTmp}
            /\ pc' = "load_disk"
            /\ UNCHANGED <<Running, ccResult>>
    /\ UNCHANGED <<env, roundedVars, outFiles, iconset, saves, diskVars,
                   dmgDir, dmgTouched, app_icon, tried, app_img>>

\* Lines 99-105 and 137-139: open the placeholder, then branch on the suffix.
CvLoadDisk ==
    /\ env.script = "composite" /\ pc = "load_disk"
    /\ IF env.fault.kind = "open_disk" THEN CcFail /\ UNCHANGED app_img
       ELSE CASE Suffix(app_icon) = "png" ->
                    /\ app_img' = "candidate"
                    /\ pc' = "open_app"
                    /\ UNCHANGED <<Running, ccResult>>
              [] Suffix(app_icon) = "icns" ->
                    /\ pc' = "icns2png"
                    /\ UNCHANGED <<Running, ccResult, app_img>>
              [] OTHER -> CcFail /\ UNCHANGED app_img
    /\ UNCHANGED <<env, roundedVars, outFiles, iconset, saves, diskVars,
                   dmgDir, dmgTouched, app_icon, tried, tmpFiles, tmpWritten>>

\* Lines 110-120: the which test, and with icns2png present its run in /tmp,
\* the two globs, and the return False when neither matches.
CvIcns2png ==
    /\ env.script = "composite" /\ pc = "icns2png"
    /\ tried' = Append(tried, "icns2png")
    /\ IF env.hasIcns2png
       THEN /\ tmpFiles' = tmpFiles \cup ExtractedTmp(env.icnsYield)
            /\ tmpWritten' = tmpWritten \cup ExtractedTmp(env.icnsYield)
            /\ IF LargestExtracted(env.icnsYield) # {}
               THEN /\ app_img' = "extracted"
                    /\ pc' = "open_app"
                    /\ UNCHANGED <<Running, ccResult>>
               ELSE CcFail /\ UNCHANGED app_img
       ELSE /\ pc' = "convert"
            /\ UNCHANGED <<Running, ccResult, app_img, tmpFiles, tmpWritten>>
    /\ UNCHANGED <<env, roundedVars, outFiles, iconset, saves, diskVars,
                   dmgDir, dmgTouched, app_icon>>

\* Lines 123-130: convert run without a which test; a missing binary raises
\* FileNotFoundError, caught at line 179.
CvConvert ==
    /\ env.script = "composite" /\ pc = "convert"
    /\ tried' = Append(tried, "convert")
    /\ IF ~env.hasConvert THEN CcFail /\ UNCHANGED <<app_img, tmpFiles, tmpWritten>>
       ELSE IF env.convertOk
       THEN /\ tmpFiles' = tmpFiles \cup {AppIconTmp}
            /\ tmpWritten' = tmpWritten \cup {AppIconTmp}
            /\ app_img' = "converted"
            /\ pc' = "open_app"
            /\ UNCHANGED <<Running, ccResult>>
       ELSE /\ pc' = "sibling"
            /\ UNCHANGED <<Running, ccResult, app_img, tmpFiles, tmpWritten>>
    /\ UNCHANGED <<env, roundedVars, outFiles, iconset, saves, diskVars,
                   dmgDir, dmgTouched, app_icon>>

\* Lines 131-136: the same-named .png file.
CvSibling ==
    /\ env.script = "composite" /\ pc = "sibling"
    /\ tried' = Append(tried, "sibling")
    /\ IF SiblingExists(env, app_icon)
       THEN /\ app_img' = "sibling"
            /\ pc' = "open_app"
            /\ UNCHANGED <<Running, ccResult>>
       ELSE CcFail /\ UNCHANGED app_img
    /\ UNCHANGED <<env, roundedVars, outFiles, iconset, saves, diskVars,
                   dmgDir, dmgTouched, app_icon, tmpFiles, tmpWritten>>

\* Image.open(...).convert('RGBA') of the resolved raster (lines 104, 117,
\* 128, 134).
CvOpenApp ==
    /\ env.script = "composite" /\ pc = "open_app"
    /\ IF env.fault.kind = "open_app" THEN CcFail
       ELSE pc' = "composite" /\ UNCHANGED <<Running, ccResult>>
    /\ UNCHANGED <<env, roundedVars, outFiles, iconset, saves, diskVars,
                   dmgDir, dmgTouched, app_icon, tried, app_img, tmpFiles, tmpWritten>>

\* Lines 142-153: resize, paste, disk_img.save(output_path).
CvComposite ==
    /\ env.script = "composite" /\ pc = "composite"
    /\ IF env.fault.kind = "save" THEN CcFail /\ UNCHANGED <<outFiles, dmgTouched>>
       ELSE /\ outFiles' = outFiles \cup {"VolumeIcon.png"}
            /\ dmgTouched' = TRUE
            /\ pc' = "iconset_mkdir"
            /\ UNCHANGED <<Running, ccResult>>
    /\ UNCHANGED <<env, roundedVars, iconset, saves, diskVars,
                   dmgDir, app_icon, tried, app_img, tmpFiles, tmpWritten>>

\* Lines 156-158: iconset_dir.mkdir(exist_ok=True)
CvIconsetMkdir ==
    /\ env.script = "composite" /\ pc = "iconset_mkdir"
    /\ IF env.fault.kind = "iconset_mkdir" THEN CcFail
       ELSE pc' = "iconset" /\ UNCHANGED <<Running, ccResult>>
    /\ UNCHANGED <<env, roundedVars, outFiles, iconset, saves, diskVars,
                   dmgDir, dmgTouched, app_icon, tried, app_img, tmpFiles, tmpWritten>>

\* Lines 160-168: one resize and save; after the save of a size, its @2x save
\* when Wants2x(size), else the next size.
CvIconsetSave ==
    /\ env.script = "composite" /\ pc = "iconset"
    /\ saves' = saves + 1
    /\ LET size == CompositeSizes[idx]
           last == idx = Len(CompositeSizes)
       IN IF env.fault.kind = "iconset_save" /\ env.fault.at = saves + 1
          THEN CcFail /\ UNCHANGED <<iconset, idx, retina>>
          ELSE /\ iconset' = iconset \cup
                      {IconFile(size, retina, IF retina THEN size * 2 ELSE size)}
               /\ UNCHANGED <<Running, ccResult>>
               /\ IF ~retina /\ Wants2x(size)
                  THEN retina' = TRUE /\ UNCHANGED <<idx, pc>>
                  ELSE /\ retina' = FALSE
                       /\ idx' = IF last THEN idx ELSE idx + 1
                       /\ pc' = IF last THEN "cleanup" ELSE "iconset"
    /\ UNCHANGED <<env, roundedVars, outFiles, canvas, shapes, line_y,
                   dmgDir, dmgTouched, app_icon, tried, app_img, tmpFiles, tmpWritten>>

\* Lines 173-177: remove the placeholder and return True; an error of
\* os.remove is inside the try block and goes to line 179.
CvCleanup ==
    /\ env.script = "composite" /\ pc = "cleanup"
    /\ IF DiskIconTmp \in tmpFiles /\ env.fault.kind = "remove"
       THEN CcFail /\ UNCHANGED tmpFiles
       ELSE /\ tmpFiles' = tmpFiles \ {DiskIconTmp}
            /\ ccResult' = "true"
            /\ pc' = "after"
            /\ UNCHANGED Running
    /\ UNCHANGED <<env, roundedVars, outFiles, iconset, saves, diskVars,
                   dmgDir, dmgTouched, app_icon, tried, app_img, tmpWritten>>

\* main, lines 226-246: the hidden copy, or the failure message and exit 1.
CvAfter ==
    /\ env.script = "composite" /\ pc = "after"
    /\ IF ccResult = "true"
       THEN IF env.fault.kind = "copy"
            THEN Exit(1, FALSE, TRUE) /\ UNCHANGED outFiles
            ELSE Exit(0, TRUE, FALSE) /\ outFiles' = outFiles \cup {".VolumeIcon.png"}
       ELSE Exit(1, TRUE, TRUE) /\ UNCHANGED outFiles
    /\ UNCHANGED <<env, roundedVars, iconset, saves, diskVars, compositeVars>>

NextComposite ==
    \/ CvStart \/ CvPaths \/ CvFind \/ CvPlaceholder \/ CvLoadDisk
    \/ CvIcns2png \/ CvConvert \/ CvSibling \/ CvOpenApp \/ CvComposite
    \/ CvIconsetMkdir \/ CvIconsetSave \/ CvCleanup \/ CvAfter

Init == \E e \in RoundedEnvs \cup DiskEnvs \cup CompositeEnvs : InitState(e)

Next == NextRounded \/ NextDisk \/ NextComposite

Spec == Init /\ [][Next]_vars

\* create-disk-icon.py alone; the script runs on without pause until it exits.
DiskInit == \E e \in DiskEnvs : InitState(e)

FairDiskSpec == DiskInit /\ [][NextDisk]_vars /\ WF_vars(NextDisk)

(***************************************************************************)
(* The claims.                                                             *)
(***************************************************************************)

\* The names of the files of an iconset: <<nominal size, is it the @2x file>>.
IconNames(files) == {<<f.w, f.at2x>> : f \in files}

\* C1: in the composite generator, when no candidate application icon exists
\* (PIL present, no I/O error), the output directory dmg-assets is neither
\* created nor modified at any point of the run, and the run ends with exit
\* code 1.
C1_NoIconLeavesOutputDirUntouched ==
    (env.script = "composite" /\ env.hasPil /\ env.fault = NoFault /\ env.exists = {})
        => /\ ~dmgTouched
           /\ dmgDir = env.dmgInit
           /\ (pc = "exit" => exitCode = 1)

\* C2: for an .icns application icon (no I/O error), create_composite_icon
\* tries icns2png, then convert, then the sibling .png, in that order, and
\* returns failure only after all three have been tried.
C2_AllThreeTriedBeforeFailure ==
    (env.script = "composite" /\ env.fault = NoFault /\ app_icon \in {2, 3})
        => /\ \E n \in 0..3 : tried = SubSeq(<<"icns2png", "convert", "sibling">>, 1, n)
           /\ (ccResult = "false" => tried = <<"icns2png", "convert", "sibling">>)

\* C3: once create_composite_icon has returned, with success or with failure,
\* no temporary file it wrote to /tmp is left there.
C3_TmpRemovedOnReturn ==
    (env.script = "composite" /\ ccResult # "none") => tmpFiles \cap tmpWritten = {}

\* C4: when the composite and the whole iconset were written and only the
\* removal of /tmp/disk_icon.png fails, create_composite_icon returns success,
\* main writes the hidden duplicate and the process exits with code 0.
C4_RemoveFailureNonFatal ==
    (env.script = "composite" /\ env.fault.kind = "remove" /\ pc = "exit"
       /\ "VolumeIcon.png" \in outFiles /\ saves = 11)
        => /\ ccResult = "true"
           /\ ".VolumeIcon.png" \in outFiles
           /\ exitCode = 0

\* C5 as claimed: whenever the composite generator succeeds, VolumeIcon.iconset
\* holds the 12 names of the disk-icon generator's iconset: icon_SxS.png and
\* icon_SxS@2x.png for every S in {16, 32, 64, 128, 256, 512}.
C5_SameTwelveFiles ==
    (env.script = "composite" /\ pc = "exit" /\ exitCode = 0)
        => IconNames(iconset) = {16, 32, 64, 128, 256, 512} \X BOOLEAN

\* C5 as amended: whenever the composite generator succeeds, VolumeIcon.iconset
\* holds 11 files: icon_SxS.png for every S in {16, 32, 64, 128, 256, 512} and
\* icon_SxS@2x.png for every S in {16, 32, 64, 128, 256}; icon_512x512@2x.png
\* is not written.
C5_ElevenFiles ==
    (env.script = "composite" /\ pc = "exit" /\ exitCode = 0)
        => /\ IconNames(iconset) = ({16, 32, 64, 128, 256, 512} \X {FALSE})
                                       \cup ({16, 32, 64, 128, 256} \X {TRUE})
           /\ Cardinality(iconset) = 11

C5_Witness ==
    /\ env.script = "composite" /\ pc = "exit" /\ exitCode = 0
    /\ <<256, TRUE>> \in IconNames(iconset)
    /\ <<512, FALSE>> \in IconNames(iconset)

\* C6: in every script (with the imaging library and the which utility
\* installed), a run in which a step raised an error ends in the script's own
\* top-level handling: the error is reported with a message, no exception
\* escapes unhandled, and the exit code is not 0.
C6_ErrorsHandledAtTopLevel ==
    (pc = "exit" /\ raised /\ env.hasPil /\ env.fault.kind # "which")
        => (~unhandled /\ reported /\ exitCode # 0)

\* C7: the rounded-corner script, given a third argument that int() rejects
\* or that is an integer outside [0, 50], never calls add_rounded_corners,
\* writes no output file and exits with code 1; given an integer in [0, 50]
\* (and an existing input) it goes on to call add_rounded_corners.
C7_BadRadiusRejected ==
    (env.script = "rounded" /\ Len(env.argv) >= 3)
        => LET p == PyInt(env.argv[3])
               bad == ~p.ok \/ p.val < 0 \/ p.val > 50
           IN /\ (bad => (~called /\ outFiles = {} /\ (pc = "exit" => exitCode = 1)))
              /\ ((~bad /\ env.hasPil /\ env.inputExists /\ pc = "exit") => called)

C7_Witness ==
    /\ env.script = "rounded" /\ Len(env.argv) >= 3 /\ env.hasPil /\ env.inputExists
    /\ pc = "exit" /\ exitCode = 1 /\ ~called
    /\ PyInt(env.argv[3]).ok /\ PyInt(env.argv[3]).val = 51

\* C8: create_disk_icon, when every write succeeds, writes exactly 12 files
\* into disk.iconset: for every S in {16, 32, 64, 128, 256, 512} icon_SxS.png
\* holding an S-by-S raster and icon_SxS@2x.png holding a 2S-by-2S raster.
C8_TwelveDiskFiles ==
    (env.script = "disk" /\ env.hasPil /\ Len(env.argv) = 1 /\ env.fault = NoFault
       /\ pc = "exit")
        => /\ exitCode = 0
           /\ iconset =
                 {[w |-> S, h |-> S, at2x |-> FALSE, px_w |-> S, px_h |-> S] :
                     S \in {16, 32, 64, 128, 256, 512}}
                 \cup
                 {[w |-> S, h |-> S, at2x |-> TRUE, px_w |-> 2 * S, px_h |-> 2 * S] :
                     S \in {16, 32, 64, 128, 256, 512}}
           /\ Cardinality(iconset) = 12

C8_Witness ==
    /\ env.script = "disk" /\ env.fault = NoFault /\ pc = "exit" /\ exitCode = 0
    /\ saves = 12
    /\ [w |-> 512, h |-> 512, at2x |-> TRUE, px_w |-> 1024, px_h |-> 1024] \in iconset

\* C9: in add_rounded_corners, for an image of width w >= 1 and height h >= 1
\* and a percentage pct in [0, 50], the pixel radius is
\* floor(min(w, h) * pct / 100); it is 0 when pct = 0 and never more than
\* half of the smaller dimension.
C9_RadiusIsFloor ==
    (env.script = "rounded" /\ radius # -1)
        => LET m == IF img.width <= img.height THEN img.width ELSE img.height
           IN /\ radius_percent \in 0..50
              /\ 100 * radius <= m * radius_percent
              /\ m * radius_percent < 100 * (radius + 1)
              /\ (radius_percent = 0 => radius = 0)
              /\ 2 * radius <= m

C9_Witness ==
    /\ env.script = "rounded" /\ radius >= 2
    /\ img.height < img.width
    /\ (img.height * radius_percent) % 100 # 0

\* The shapes on the canvas are well-formed: left <= right and top <= bottom.
WellFormed(r) == r.x0 <= r.x1 /\ r.y0 <= r.y1

\* The rectangle lies within the pixels lo..hi in both directions.
Within(r, lo, hi) ==
    /\ lo <= r.x0 /\ r.x1 <= hi
    /\ lo <= r.y0 /\ r.y1 <= hi

\* What C10 says of every shape but the shadow's place on the canvas.
C10_Shapes ==
    LET g == DiskGeometry(canvas)
    IN /\ WellFormed(shapes.body)
       /\ WellFormed(shapes.shadow)
       /\ WellFormed(shapes.highlight)
       /\ \A r \in shapes.strips \cup shapes.connector : WellFormed(r)
       /\ \A r \in shapes.connector : Within(r, 0, canvas - 1)
       /\ \A r \in shapes.strips \cup shapes.lines : r.y1 < g.y2 - g.corner_radius

\* C10 as claimed: for every size create_disk_icon renders, every shape
\* create_single_disk_icon draws is well-formed, the shadow and the connector
\* notch stay within 0..S-1, and every gradient strip and texture line lies
\* above y2 - corner_radius.
C10_ShadowOnCanvas ==
    (env.script = "disk" /\ canvas > 0)
        => (C10_Shapes /\ Within(shapes.shadow, 0, canvas - 1))

\* The amended statement's state part: the shadow stays within 0..S-1 for
\* S >= 32 and within 0..S for S = 16.
C10_Geometry ==
    (env.script = "disk" /\ canvas > 0)
        => /\ C10_Shapes
           /\ (canvas >= 32 => Within(shapes.shadow, 0, canvas - 1))
           /\ (canvas = 16 => Within(shapes.shadow, 0, canvas))

\* C10 as amended: for every size create_disk_icon renders (16 to 1024), every
\* shape is well-formed, the connector notch stays within 0..S-1, the shadow
\* stays within 0..S-1 for S >= 32 and within 0..S at S = 16 (where its right
\* edge x2 + shadow_offset is 16), every gradient strip and texture line lies
\* above y2 - corner_radius, and the texture-line loop terminates.
C10_ShapesWellFormed ==
    /\ []C10_Geometry
    /\ (pc = "texture") ~> (pc # "texture")

C10_Witness ==
    /\ env.script = "disk" /\ canvas = 1024 /\ pc = "save"
    /\ Cardinality(shapes.lines) = 9
    /\ Cardinality(shapes.strips) = 10
    /\ shapes.connector # {}

=============================================================================
